---- MODULE Spec2Model ----
(***************************************************************************)
(* Model of main.py: a FastAPI application that keeps "todos" in one       *)
(* PostgreSQL table.  Every handler opens a psycopg2 connection, runs one  *)
(* SQL statement and commits or rolls back when its `with` block exits.    *)
(* Handlers run in the server's thread pool, so the model runs each        *)
(* handler in two steps (the statement is executed; the result is fetched, *)
(* committed and returned) that may interleave with those of another       *)
(* request.  The database is modelled as PostgreSQL behaves at READ        *)
(* COMMITTED: a statement reads committed rows, UPDATE and DELETE hold a   *)
(* row lock until the transaction ends, and a sequence value, once drawn,  *)
(* is never given back.                                                    *)
(***************************************************************************)
EXTENDS Integers, Sequences, FiniteSets, TLC

\* Largest value the id sequence may reach, and the ids a client may send.
MaxId == 2

\* Requests that may be in flight at the same time (thread-pool workers).
Reqs == {"w1", "w2"}
\* The characters str.strip() removes.
Whitespace == {" "}
\* Titles a client sends: empty, blank, plain, and padded with whitespace.
Titles == {<<>>, <<" ">>, <<"a">>, <<" ", "a", " ">>}
Ids == 1..MaxId

VARIABLES
    phase,        \* "starting" (lifespan not yet run) or "serving"
    dbUp,         \* the database server is reachable
    tableExists,  \* the table `todos` exists in the database
    todos,        \* committed rows of the table: records [id, title, done]
    seq,          \* last value drawn from the SERIAL sequence todos_id_seq
    req,          \* per worker: the request it is handling and its response
    conn,         \* per worker: state of the connection its request opened
    startupConn,  \* state of the connection lifespan opened
    maxReturned,  \* history: largest id a completed create has returned
    flips,        \* history: per id, whether an odd number of toggles returned 200
    deleted       \* history: ids whose delete returned 204

vars == <<phase, dbUp, tableExists, todos, seq, req, conn, startupConn,
          maxReturned, flips, deleted>>
hist == <<maxReturned, flips, deleted>>

----------------------------------------------------------------------------
\* Pure helpers

RECURSIVE lstrip(_)
lstrip(s) ==
    IF s = <<>> THEN s
    ELSE IF Head(s) \in Whitespace THEN lstrip(Tail(s)) ELSE s

RECURSIVE rstrip(_)
rstrip(s) ==
    IF s = <<>> THEN s
    ELSE IF s[Len(s)] \in Whitespace THEN rstrip(SubSeq(s, 1, Len(s) - 1)) ELSE s

\* str.strip(): drop leading and trailing whitespace.
strip(s) == rstrip(lstrip(s))

\* Mutation: the title is tested without being stripped.
TitleMissingUnstripped(title) == title = <<>>

\* `not todo.title.strip()`
TitleMissing(title) == strip(title) = <<>>

\* Mutation: the title is stored as sent.
InsertedTitleRaw(title) == title

\* The value bound to the INSERT's %s parameter.
InsertedTitle(title) == strip(title)

\* TodoOut(id=r["id"], title=r["title"], done=r["done"])
TodoOut(r) == [id |-> r.id, title |-> r.title, done |-> r.done]

\* Rows matched by `WHERE id = %s`.
WhereId(id) == {t \in todos : t.id = id}

\* Mutation: the id is max(id) + 1 over the stored rows, not a sequence value.
NextValMaxPlusOne ==
    IF todos = {} THEN 1
    ELSE (CHOOSE i \in {t.id : t \in todos} : \A t \in todos : t.id <= i) + 1

\* Mutation: the sequence is not advanced once it has started.
NextValStuck == IF seq = 0 THEN 1 ELSE seq

\* nextval('todos_id_seq'), the default of the SERIAL column.
NextVal == seq + 1

\* Mutation: `SET done = TRUE`.
NotDoneAlwaysTrue(t) == [t EXCEPT !.done = TRUE]

\* `SET done = NOT done`
NotDone(t) == [t EXCEPT !.done = ~t.done]

\* `ORDER BY id DESC` over a set of rows.
RECURSIVE OrderByIdDesc(_)
OrderByIdDesc(S) ==
    IF S = {} THEN <<>>
    ELSE LET m == CHOOSE t \in S : \A u \in S : u.id <= t.id
         IN  <<m>> \o OrderByIdDesc(S \ {m})

RECURSIVE OrderByIdAsc(_)
OrderByIdAsc(S) ==
    IF S = {} THEN <<>>
    ELSE LET m == CHOOSE t \in S : \A u \in S : t.id <= u.id
         IN  <<m>> \o OrderByIdAsc(S \ {m})

\* Mutation: `ORDER BY id` without DESC.
SelectAllAsc == OrderByIdAsc(todos)

\* `SELECT id, title, done FROM todos ORDER BY id DESC`
SelectAll == OrderByIdDesc(todos)

\* Mutation: the flip is a read followed by a write, with no row lock.
RowLockedNever(id, r) == FALSE

\* Another transaction has updated or deleted the row and not yet ended:
\* PostgreSQL makes this UPDATE/DELETE wait for it.
RowLocked(id, r) ==
    \E q \in Reqs \ {r} :
        /\ req[q].pc = "exec"
        /\ req[q].op \in {"toggle", "delete"}
        /\ req[q].todo_id = id
        /\ req[q].rows # <<>>

\* State of a psycopg2 connection after `with conn:` exits: the transaction
\* is committed or rolled back, the connection itself is left as it was.
AfterWith(c) == c

\* A worker with no request.
NoReq == [op |-> "none", pc |-> "idle", todo_id |-> 0, title |-> <<>>,
          rows |-> <<>>, status |-> 0, body |-> <<>>, service |-> "",
          database |-> "", seenMax |-> 0, sawDeleted |-> FALSE]

Set(r, rec) == req' = [req EXCEPT ![r] = rec]

\* The finished request: what was asked, and the status and body sent back.
Response(rec, status, body) ==
    [NoReq EXCEPT !.op = rec.op, !.pc = "done", !.todo_id = rec.todo_id,
                  !.title = rec.title, !.sawDeleted = rec.sawDeleted,
                  !.status = status, !.body = body]

\* get_conn() succeeds for worker r.
get_conn(r) == conn' = [conn EXCEPT ![r] = "open"]

\* The `with get_conn() as conn:` block of worker r is left.
exit_with(r) == conn' = [conn EXCEPT ![r] = AfterWith(conn[r])]

----------------------------------------------------------------------------
Init ==
    /\ phase = "starting"
    /\ dbUp = TRUE
    /\ tableExists = FALSE
    /\ todos = {}
    /\ seq = 0
    /\ req = [r \in Reqs |-> NoReq]
    /\ conn = [r \in Reqs |-> "none"]
    /\ startupConn = "none"
    /\ maxReturned = 0
    /\ flips = [i \in Ids |-> FALSE]
    /\ deleted = {}

----------------------------------------------------------------------------
\* Application lifecycle

\* lifespan, start-up part: CREATE TABLE IF NOT EXISTS, commit, then yield.
\* The generator is suspended at `yield` with `conn` still a live local.
lifespan ==
    /\ phase = "starting"
    /\ dbUp
    /\ tableExists' = TRUE
    /\ startupConn' = AfterWith("open")
    /\ phase' = "serving"
    /\ UNCHANGED <<dbUp, todos, seq, req, conn, hist>>

\* The process stops and is started again; the database keeps its contents.
Restart ==
    /\ phase = "serving"
    /\ \A r \in Reqs : req[r].pc = "idle"
    /\ phase' = "starting"
    /\ startupConn' = "none"
    /\ UNCHANGED <<dbUp, tableExists, todos, seq, req, conn, hist>>

\* The response has been sent and the request's objects are reclaimed; the
\* connection object is closed by its finaliser, never by the handler.
Collect(r) ==
    /\ req[r].pc = "done"
    /\ Set(r, NoReq)
    /\ conn' = [conn EXCEPT ![r] = "none"]
    /\ UNCHANGED <<phase, dbUp, tableExists, todos, seq, startupConn, hist>>

\* A handler may be called, and its database calls do not raise.
Callable(r) == phase = "serving" /\ req[r].pc = "idle" /\ dbUp

----------------------------------------------------------------------------
\* GET /

root(r) ==
    /\ phase = "serving"
    /\ req[r].pc = "idle"
    /\ Set(r, Response([NoReq EXCEPT !.op = "root"], 200, <<>>))
    /\ UNCHANGED <<phase, dbUp, tableExists, todos, seq, conn, startupConn, hist>>

----------------------------------------------------------------------------
\* GET /health

\* get_conn(); cur.execute("SELECT 1"); cur.fetchone()
health_execute(r) ==
    /\ Callable(r)
    /\ get_conn(r)
    /\ Set(r, [NoReq EXCEPT !.op = "health", !.pc = "exec"])
    /\ UNCHANGED <<phase, dbUp, tableExists, todos, seq, startupConn, hist>>

\* The `with` block exits without error: db_status = "ok".
health_return(r) ==
    /\ req[r].op = "health" /\ req[r].pc = "exec"
    /\ dbUp
    /\ exit_with(r)
    /\ Set(r, [Response(req[r], 200, <<>>) EXCEPT !.service = "ok",
                                                   !.database = "ok"])
    /\ UNCHANGED <<phase, dbUp, tableExists, todos, seq, startupConn, hist>>

----------------------------------------------------------------------------
\* GET /todos

list_todos_execute(r) ==
    /\ Callable(r) /\ tableExists
    /\ get_conn(r)
    /\ Set(r, [NoReq EXCEPT !.op = "list", !.pc = "exec", !.rows = SelectAll])
    /\ UNCHANGED <<phase, dbUp, tableExists, todos, seq, startupConn, hist>>

list_todos_return(r) ==
    /\ req[r].op = "list" /\ req[r].pc = "exec"
    /\ dbUp
    /\ exit_with(r)
    /\ Set(r, Response(req[r], 200,
                       [i \in 1..Len(req[r].rows) |-> TodoOut(req[r].rows[i])]))
    /\ UNCHANGED <<phase, dbUp, tableExists, todos, seq, startupConn, hist>>

----------------------------------------------------------------------------
\* POST /todos

\* `if not todo.title.strip(): raise HTTPException(400)`, before get_conn().
create_todo_reject(r, title) ==
    /\ phase = "serving"
    /\ req[r].pc = "idle"
    /\ TitleMissing(title)
    /\ Set(r, Response([NoReq EXCEPT !.op = "create", !.title = title], 400, <<>>))
    /\ UNCHANGED <<phase, dbUp, tableExists, todos, seq, conn, startupConn, hist>>

\* INSERT INTO todos(title, done) VALUES (%s, FALSE) RETURNING id, title, done
\* The sequence advances at once; the row is visible to others on commit.
create_todo_execute(r, title) ==
    /\ Callable(r) /\ tableExists
    /\ ~TitleMissing(title)
    /\ seq < MaxId
    /\ get_conn(r)
    /\ seq' = NextVal
    /\ Set(r, [NoReq EXCEPT !.op = "create", !.pc = "exec", !.title = title,
                 !.seenMax = maxReturned,
                 !.rows = <<[id |-> NextVal, title |-> InsertedTitle(title),
                             done |-> FALSE]>>])
    /\ UNCHANGED <<phase, dbUp, tableExists, todos, startupConn, hist>>

\* row = cur.fetchone(); conn.commit(); 500 if no row, else the record.
create_todo_return(r) ==
    /\ req[r].op = "create" /\ req[r].pc = "exec"
    /\ dbUp
    /\ exit_with(r)
    /\ todos' = todos \cup {req[r].rows[i] : i \in 1..Len(req[r].rows)}
    /\ IF req[r].rows = <<>>
       THEN /\ Set(r, Response(req[r], 500, <<>>))
            /\ UNCHANGED hist
       ELSE /\ Set(r, Response(req[r], 201, <<TodoOut(req[r].rows[1])>>))
            /\ maxReturned' = IF req[r].rows[1].id > maxReturned
                              THEN req[r].rows[1].id ELSE maxReturned
            /\ UNCHANGED <<flips, deleted>>
    /\ UNCHANGED <<phase, dbUp, tableExists, seq, startupConn>>

----------------------------------------------------------------------------
\* PATCH /todos/{todo_id}

\* UPDATE todos SET done = NOT done WHERE id = %s RETURNING id, title, done
toggle_done_execute(r, todo_id) ==
    /\ Callable(r) /\ tableExists
    /\ ~RowLocked(todo_id, r)
    /\ get_conn(r)
    /\ Set(r, [NoReq EXCEPT !.op = "toggle", !.pc = "exec", !.todo_id = todo_id,
                 !.sawDeleted = (todo_id \in deleted),
                 !.rows = OrderByIdDesc({NotDone(t) : t \in WhereId(todo_id)})])
    /\ UNCHANGED <<phase, dbUp, tableExists, todos, seq, startupConn, hist>>

\* row found: conn.commit() and return it.
toggle_done_return(r) ==
    /\ req[r].op = "toggle" /\ req[r].pc = "exec"
    /\ req[r].rows # <<>>
    /\ dbUp
    /\ exit_with(r)
    /\ todos' = (todos \ WhereId(req[r].todo_id)) \cup {req[r].rows[1]}
    /\ Set(r, Response(req[r], 200, <<TodoOut(req[r].rows[1])>>))
    /\ flips' = [flips EXCEPT ![req[r].todo_id] = ~@]
    /\ UNCHANGED <<phase, dbUp, tableExists, seq, startupConn, maxReturned, deleted>>

\* `if not row: raise HTTPException(404)`; the `with` exit rolls back.
toggle_done_not_found(r) ==
    /\ req[r].op = "toggle" /\ req[r].pc = "exec"
    /\ req[r].rows = <<>>
    /\ exit_with(r)
    /\ Set(r, Response(req[r], 404, <<>>))
    /\ UNCHANGED <<phase, dbUp, tableExists, todos, seq, startupConn, hist>>

----------------------------------------------------------------------------
\* DELETE /todos/{todo_id}

\* DELETE FROM todos WHERE id = %s; rows holds what cur.rowcount counts.
delete_todo_execute(r, todo_id) ==
    /\ Callable(r) /\ tableExists
    /\ ~RowLocked(todo_id, r)
    /\ get_conn(r)
    /\ Set(r, [NoReq EXCEPT !.op = "delete", !.pc = "exec", !.todo_id = todo_id,
                 !.sawDeleted = (todo_id \in deleted),
                 !.rows = OrderByIdDesc(WhereId(todo_id))])
    /\ UNCHANGED <<phase, dbUp, tableExists, todos, seq, startupConn, hist>>

\* rowcount > 0: conn.commit() and return None (204, no body).
delete_todo_return(r) ==
    /\ req[r].op = "delete" /\ req[r].pc = "exec"
    /\ Len(req[r].rows) # 0
    /\ dbUp
    /\ exit_with(r)
    /\ todos' = todos \ {req[r].rows[i] : i \in 1..Len(req[r].rows)}
    /\ Set(r, Response(req[r], 204, <<>>))
    /\ deleted' = deleted \cup {req[r].todo_id}
    /\ flips' = [flips EXCEPT ![req[r].todo_id] = FALSE]
    /\ UNCHANGED <<phase, dbUp, tableExists, seq, startupConn, maxReturned>>

\* Mutation: the rowcount test is missing, so the delete commits and succeeds.
delete_todo_unchecked(r) ==
    /\ req[r].op = "delete" /\ req[r].pc = "exec"
    /\ Len(req[r].rows) = 0
    /\ exit_with(r)
    /\ Set(r, Response(req[r], 204, <<>>))
    /\ UNCHANGED <<phase, dbUp, tableExists, todos, seq, startupConn, hist>>

\* `if cur.rowcount == 0: raise HTTPException(404)`; the `with` exit rolls back.
delete_todo_not_found(r) ==
    /\ req[r].op = "delete" /\ req[r].pc = "exec"
    /\ Len(req[r].rows) = 0
    /\ exit_with(r)
    /\ Set(r, Response(req[r], 404, <<>>))
    /\ UNCHANGED <<phase, dbUp, tableExists, todos, seq, startupConn, hist>>

----------------------------------------------------------------------------
\* Database failures (psycopg2.Error)

DbGoesDown ==
    /\ dbUp
    /\ dbUp' = FALSE
    /\ UNCHANGED <<phase, tableExists, todos, seq, req, conn, startupConn, hist>>

DbComesUp ==
    /\ ~dbUp
    /\ dbUp' = TRUE
    /\ UNCHANGED <<phase, tableExists, todos, seq, req, conn, startupConn, hist>>

\* lifespan when get_conn() raises: the error is printed and the app yields.
lifespan_db_error ==
    /\ phase = "starting"
    /\ ~dbUp
    /\ phase' = "serving"
    /\ startupConn' = "none"
    /\ UNCHANGED <<dbUp, tableExists, todos, seq, req, conn, hist>>

\* Mutation: health does not catch psycopg2.Error.
DbErrorUncaught(rec) == Response(rec, 500, <<>>)

\* The response of a handler whose database call raised psycopg2.Error:
\* health catches it, every other handler lets it surface as a 500.
DbErrorResponse(rec) ==
    IF rec.op = "health"
    THEN [Response(rec, 200, <<>>) EXCEPT !.service = "ok", !.database = "error"]
    ELSE Response(rec, 500, <<>>)

\* The requests whose handler reaches get_conn().
DbCalls ==
    {[NoReq EXCEPT !.op = op] : op \in {"health", "list"}}
    \cup {[NoReq EXCEPT !.op = "create", !.title = t] :
            t \in {x \in Titles : ~TitleMissing(x)}}
    \cup {[NoReq EXCEPT !.op = op, !.todo_id = i] :
            op \in {"toggle", "delete"}, i \in Ids}

\* get_conn() raises in a handler: no connection was opened.
get_conn_error(r, call) ==
    /\ phase = "serving"
    /\ req[r].pc = "idle"
    /\ ~dbUp
    /\ Set(r, DbErrorResponse(call))
    /\ UNCHANGED <<phase, dbUp, tableExists, todos, seq, conn, startupConn, hist>>

\* cur.execute() raises because relation "todos" does not exist; the `with`
\* exit rolls back and the error propagates.
execute_error(r, call) ==
    /\ Callable(r)
    /\ ~tableExists /\ call.op # "health"
    /\ conn' = [conn EXCEPT ![r] = AfterWith("open")]
    /\ Set(r, DbErrorResponse(call))
    /\ UNCHANGED <<phase, dbUp, tableExists, todos, seq, startupConn, hist>>

\* The server is gone when the result is fetched or committed: nothing is
\* stored, and the error propagates through the `with` exit.
commit_error(r) ==
    /\ req[r].pc = "exec"
    /\ ~dbUp
    /\ exit_with(r)
    /\ Set(r, DbErrorResponse(req[r]))
    /\ UNCHANGED <<phase, dbUp, tableExists, todos, seq, startupConn, hist>>

----------------------------------------------------------------------------
Handlers ==
    \E r \in Reqs :
        \/ root(r)
        \/ health_execute(r) \/ health_return(r)
        \/ list_todos_execute(r) \/ list_todos_return(r)
        \/ \E title \in Titles : create_todo_reject(r, title)
        \/ \E title \in Titles : create_todo_execute(r, title)
        \/ create_todo_return(r)
        \/ \E todo_id \in Ids : toggle_done_execute(r, todo_id)
        \/ toggle_done_return(r)
        \/ toggle_done_not_found(r)
        \/ \E todo_id \in Ids : delete_todo_execute(r, todo_id)
        \/ delete_todo_return(r)
        \/ delete_todo_not_found(r)
        \/ Collect(r)

Failures ==
    \/ DbGoesDown
    \/ DbComesUp
    \/ lifespan_db_error
    \/ \E r \in Reqs :
        \/ \E call \in DbCalls : get_conn_error(r, call)
        \/ \E call \in DbCalls : execute_error(r, call)
        \/ commit_error(r)

\* The application with a database that stays reachable.
Next == lifespan \/ Restart \/ Handlers
Spec == Init /\ [][Next]_vars

\* The application with a database that may fail at any moment.
NextFaulty == Next \/ Failures
SpecFaulty == Init /\ [][NextFaulty]_vars

----------------------------------------------------------------------------
\* Vocabulary of the properties

\* The rows stored under an id.
Stored(id) == {t \in todos : t.id = id}
StoredIds == {t.id : t \in todos}
StoredIdsAfter == {t.id : t \in todos'}

\* A title that is empty or all whitespace.
IsBlank(s) == \A i \in 1..Len(s) : s[i] \in Whitespace

\* t is s without its leading and trailing whitespace.
IsTrimOf(t, s) ==
    /\ t # <<>> => Head(t) \notin Whitespace /\ t[Len(t)] \notin Whitespace
    /\ \E i \in 0..Len(s) :
        /\ i + Len(t) <= Len(s)
        /\ SubSeq(s, i + 1, i + Len(t)) = t
        /\ \A k \in (1..i) \cup ((i + Len(t) + 1)..Len(s)) : s[k] \in Whitespace

\* Worker r's statement runs in this step / r's handler finishes in this step.
Executes(r, op) == req[r].pc = "idle" /\ req'[r].pc = "exec" /\ req'[r].op = op
Finishes(r, op) == req[r].pc # "done" /\ req'[r].pc = "done" /\ req'[r].op = op
Returned(r, op, status) ==
    req[r].pc = "done" /\ req[r].op = op /\ req[r].status = status

----------------------------------------------------------------------------
\* C1: a create whose title is not blank returns 201 with a record that has
\* done = FALSE, the trimmed title and a sequence-assigned id; that record is
\* in the store afterwards and no record with its id was there before.
C1_CreateReturnsCreated ==
    [][\A r \in Reqs :
        (Finishes(r, "create") /\ ~IsBlank(req'[r].title)) =>
            /\ req'[r].status = 201
            /\ Len(req'[r].body) = 1
            /\ req'[r].body[1].done = FALSE
            /\ IsTrimOf(req'[r].body[1].title, req'[r].title)
            /\ req'[r].body[1].id \in 1..seq
            /\ Stored(req'[r].body[1].id) = {}
            /\ todos' = todos \cup {req'[r].body[1]}]_vars

C1_Witness ==
    \E r \in Reqs :
        /\ Returned(r, "create", 201)
        /\ req[r].title = <<" ", "a", " ">>
        /\ req[r].body = <<[id |-> 2, title |-> <<"a">>, done |-> FALSE]>>
        /\ req[r].body[1] \in todos

\* C2: a create whose title is blank returns 400 and changes neither the
\* store nor the sequence; no stored todo ever has a blank title.
C2_BlankTitleRejected ==
    /\ [](\A t \in todos : ~IsBlank(t.title))
    /\ [][\A r \in Reqs :
            (req'[r].op = "create" /\ req'[r].pc # "idle" /\ req[r].pc = "idle"
             /\ IsBlank(req'[r].title)) =>
                /\ req'[r].pc = "done"
                /\ req'[r].status = 400
                /\ todos' = todos
                /\ seq' = seq]_vars

C2_Witness ==
    /\ todos # {}
    /\ \E r \in Reqs : Returned(r, "create", 400) /\ req[r].title = <<" ">>

\* C3: a toggle whose UPDATE finds the id in the store returns 200 with the
\* record whose done is the negation of the stored one, and stores it; id,
\* title and every other todo stay as they were.
C3_ToggleFlipsDone ==
    [][\A r \in Reqs :
        /\ (Executes(r, "toggle") /\ Stored(req'[r].todo_id) # {}) =>
                req'[r].rows # <<>>
        /\ (Finishes(r, "toggle") /\ req[r].rows # <<>>) =>
            \E old \in Stored(req'[r].todo_id) :
                /\ Stored(req'[r].todo_id) = {old}
                /\ req'[r].status = 200
                /\ req'[r].body = <<[id |-> old.id, title |-> old.title,
                                     done |-> ~old.done]>>
                /\ todos' = (todos \ {old}) \cup {req'[r].body[1]}]_vars

C3_Witness ==
    \E r \in Reqs :
        /\ Returned(r, "toggle", 200)
        /\ req[r].body[1].done = FALSE
        /\ req[r].body[1] \in todos
        /\ \E t \in todos : t.id # req[r].todo_id /\ t.done

\* C4: a toggle or delete whose statement finds no row with the id returns
\* 404, and neither of its steps changes the store or the sequence.
C4_MissingIdNotFound ==
    [][\A r \in Reqs : \A op \in {"toggle", "delete"} :
        /\ Executes(r, op) =>
            /\ (Stored(req'[r].todo_id) = {}) = (req'[r].rows = <<>>)
            /\ todos' = todos /\ seq' = seq
        /\ (Finishes(r, op) /\ req[r].rows = <<>>) =>
            /\ req'[r].status = 404
            /\ req'[r].body = <<>>
            /\ todos' = todos /\ seq' = seq]_vars

C4_Witness ==
    /\ todos # {}
    /\ \E r, q \in Reqs :
        /\ Returned(r, "toggle", 404) /\ Stored(req[r].todo_id) = {}
        /\ Returned(q, "delete", 404) /\ Stored(req[q].todo_id) = {}

\* C5: a delete whose statement finds the id returns 204 and removes exactly
\* that record; the id is never stored or drawn from the sequence again, and
\* every toggle or delete issued on it afterwards returns 404.
C5_DeletedStaysDeleted ==
    /\ [](\A i \in deleted : Stored(i) = {} /\ i <= seq)
    /\ [][\A r \in Reqs :
            /\ (Finishes(r, "delete") /\ req[r].rows # <<>>) =>
                /\ req'[r].status = 204
                /\ req'[r].body = <<>>
                /\ Stored(req'[r].todo_id) # {}
                /\ todos' = todos \ Stored(req'[r].todo_id)
            /\ \A op \in {"toggle", "delete"} :
                (Finishes(r, op) /\ req'[r].sawDeleted) => req'[r].status = 404
            /\ \A i \in deleted : i \notin StoredIdsAfter]_vars

C5_Witness ==
    \E r, q \in Reqs :
        /\ Returned(r, "toggle", 404) /\ req[r].sawDeleted
        /\ Returned(q, "delete", 404) /\ req[q].sawDeleted
        /\ req[r].todo_id = 1 /\ req[q].todo_id = 1
        /\ StoredIds = {2}

\* C6: list_todos returns the rows that are in the store when its SELECT
\* runs, each once, in strictly descending id order, and changes nothing.
C6_ListAllDescending ==
    [][\A r \in Reqs :
        /\ Executes(r, "list") =>
            /\ {req'[r].rows[i] : i \in 1..Len(req'[r].rows)} = todos
            /\ Len(req'[r].rows) = Cardinality(todos)
            /\ \A i, j \in 1..Len(req'[r].rows) :
                    i < j => req'[r].rows[i].id > req'[r].rows[j].id
            /\ todos' = todos /\ seq' = seq
        /\ Finishes(r, "list") =>
            /\ req'[r].status = 200
            /\ req'[r].body = req[r].rows
            /\ todos' = todos /\ seq' = seq]_vars

C6_Witness ==
    \E r \in Reqs :
        /\ Returned(r, "list", 200)
        /\ Len(req[r].body) = 2
        /\ req[r].body[1].id = 2 /\ req[r].body[2].id = 1
        /\ {req[r].body[1], req[r].body[2]} = todos

\* C7: whenever no handler is running, no connection is open: each handler's
\* connection, and the one lifespan opened, is closed once it has finished.
C7_ConnectionsClosed ==
    /\ \A r \in Reqs : req[r].pc \in {"idle", "done"} => conn[r] # "open"
    /\ phase = "serving" => startupConn # "open"

\* C8 as stated: ids are unique in the store, a create returns an id above
\* every id a create has returned before it, and no step changes an id.
C8_IdsUnique == \A t, u \in todos : t.id = u.id => t = u

C8_IdsKept ==
        /\ StoredIdsAfter \ StoredIds \subseteq
                {req'[q].body[1].id : q \in {x \in Reqs : Finishes(x, "create")
                                                          /\ req'[x].status = 201}}
        /\ StoredIds \ StoredIdsAfter \subseteq
                {req'[q].todo_id : q \in {x \in Reqs : Finishes(x, "delete")
                                                       /\ req'[x].status = 204}}
        /\ Cardinality(todos') = Cardinality(StoredIdsAfter)

C8_MonotonicByCompletion ==
    /\ []C8_IdsUnique
    /\ [][/\ C8_IdsKept
          /\ \A r \in Reqs :
                (Finishes(r, "create") /\ req'[r].status = 201) =>
                    req'[r].body[1].id > maxReturned]_vars

\* C8 amended: ids are unique in the store, a create returns an id above
\* every id returned by a create that had completed when its INSERT ran, and
\* no step changes an id.
C8_MonotonicByInsert ==
    /\ []C8_IdsUnique
    /\ [][/\ C8_IdsKept
          /\ \A r \in Reqs :
                (Finishes(r, "create") /\ req'[r].status = 201) =>
                    req'[r].body[1].id > req[r].seenMax]_vars

C8_Witness ==
    \E r \in Reqs :
        /\ Returned(r, "create", 201)
        /\ req[r].body[1].id = 1
        /\ maxReturned = 2
        /\ StoredIds = {1}

\* C9: health always answers 200 with service "ok", and database "ok"
\* exactly when the connection, the query and the exit of the `with` block
\* raised no database error; a start-up that fails on the database still
\* goes on to serve.
C9_HealthIndependent ==
    [][/\ \A r \in Reqs :
            Finishes(r, "health") =>
                /\ req'[r].status = 200
                /\ req'[r].service = "ok"
                /\ req'[r].database \in {"ok", "error"}
                /\ (req'[r].database = "ok") = (req[r].pc = "exec" /\ dbUp)
       /\ (phase = "starting" /\ phase' # phase) => phase' = "serving"]_vars

C9_Witness ==
    /\ phase = "serving" /\ ~tableExists
    /\ \E r, q \in Reqs :
        /\ Returned(r, "health", 200) /\ req[r].database = "error"
        /\ Returned(q, "health", 200) /\ req[q].database = "ok"

\* C10: the stored done of a todo is the negation of its initial FALSE
\* exactly when an odd number of toggles of its id have returned 200, and
\* each toggle returns the negation of what the toggle committed before it
\* returned.
C10_NoLostToggle ==
    /\ [](\A t \in todos : t.done = flips[t.id])
    /\ [][\A r \in Reqs :
            (Finishes(r, "toggle") /\ req'[r].status = 200) =>
                /\ req'[r].body[1].done = ~flips[req'[r].todo_id]
                /\ flips'[req'[r].todo_id] = req'[r].body[1].done]_vars

C10_Witness ==
    \E r, q \in Reqs :
        /\ r # q
        /\ Returned(r, "toggle", 200) /\ Returned(q, "toggle", 200)
        /\ req[r].todo_id = req[q].todo_id
        /\ req[r].body[1].done /\ ~req[q].body[1].done
        /\ \E t \in Stored(req[r].todo_id) : ~t.done

====
